---- MODULE Spec2Model ----
(***************************************************************************)
(* A model of bilibili_api.user: the User facade, the ChannelSeries        *)
(* aggregate and the module-level functions, as coroutines that suspend    *)
(* only at a call of the Requester (network_httpx.request).                *)
(*                                                                         *)
(* A task is one invocation of an operation.  The code between two awaits  *)
(* runs atomically on the event loop, so every action below is either the  *)
(* start of an operation up to its first await, or the continuation of a   *)
(* suspended operation from the answer of the Requester up to its next     *)
(* await or its end.                                                       *)
(***************************************************************************)
EXTENDS Integers, Sequences, FiniteSets, TLC

\* ------------------------------------------------------------------ bounds
MaxCalls == 3      \* invocations started in one behaviour
MaxTotal == 2      \* largest "total" the probe of get_channel_list reports
MaxList  == 2      \* longest seasons_list / series_list of a listing
MaxCards == 2      \* longest "cards" list of a dynamics payload

VARIABLES
  uid,          \* User.uid
  credential,   \* User.credential
  self_info,    \* User.__self_info (None or the cached identity)
  task,         \* the invocations: operation, arguments, position, effects
  nStarted      \* number of invocations started so far

vars == <<uid, credential, self_info, task, nStarted>>

Slots == 1..MaxCalls

\* ---------------------------------------------------------------- optional
None == <<>>
Some(x) == <<x>>

\* -------------------------------------------------------------- credential
\* A credential is the presence of each of its claims.
Credentials == [sessdata : BOOLEAN, bili_jct : BOOLEAN, dedeuserid : BOOLEAN]

\* Credential(): the anonymous credential, no claim present.
Credential == [sessdata |-> FALSE, bili_jct |-> FALSE, dedeuserid |-> FALSE]

raise_for_no_sessdata(cred) ==
  IF cred.sessdata THEN None ELSE Some("CredentialNoSessdataException")

raise_for_no_bili_jct(cred) ==
  IF cred.bili_jct THEN None ELSE Some("CredentialNoBiliJctException")

raise_for_no_dedeuserid(cred) ==
  IF cred.dedeuserid THEN None ELSE Some("CredentialNoDedeUserIDException")

\* The statements of a function body run in order: the first check that
\* raises ends the function.
RECURSIVE FirstRaised(_)
FirstRaised(checks) ==
  IF checks = <<>> THEN None
  ELSE IF Head(checks) # None THEN Head(checks)
  ELSE FirstRaised(Tail(checks))

\* --------------------------------------------------------------- Requester
\* The errors the Requester raises (errors imported in __init__.py).
RequesterErrors == {"NetworkException", "ResponseException", "ResponseCodeException"}

\* request(method, url, params=None, data=None, credential=None): what one
\* call hands to the Requester.  params, data and credential are None when
\* the caller does not pass them.
Request(method, api, params, data, cred) ==
  [method |-> method, api |-> api, params |-> params, data |-> data,
   credential |-> cred]

\* What a task did and what it was answered, in order: the calls handed to
\* the Requester, the payloads and errors it answered, the pauses.
ReqEvent(req) == [ev |-> "request", req |-> req]
AnswerEvent(p) == [ev |-> "payload", payload |-> p]
ErrorEvent(e) == [ev |-> "error", error |-> e]
SleepEvent(secs) == [ev |-> "sleep", secs |-> secs]

\* ------------------------------------------------------------------- tasks
Pending == [kind |-> "pending"]
Returned(v) == [kind |-> "return", value |-> v]
Raised(e) == [kind |-> "raise", error |-> e]

\* An invocation: the operation and its arguments, the position of the
\* coroutine (pc), what it did and was answered so far (trace), its local
\* variables that outlive an await (local), its result, and the invocations
\* that had already ended when it started (after).
IdleTask ==
  [op |-> "idle", pc |-> "idle", args |-> <<>>, trace |-> <<>>,
   local |-> <<>>, result |-> Pending, after |-> {}]

IsIdle(c) == task[c].pc = "idle"
IsDone(c) == task[c].pc = "done"
InFlight(c) == ~IsIdle(c) /\ ~IsDone(c)

\* The requests a task has handed to the Requester, in order.
RECURSIVE RequestsOf(_)
RequestsOf(trace) ==
  IF trace = <<>> THEN <<>>
  ELSE IF Head(trace).ev = "request"
       THEN <<Head(trace).req>> \o RequestsOf(Tail(trace))
       ELSE RequestsOf(Tail(trace))

\* A new invocation takes the lowest free slot.
CanStart(c) ==
  /\ nStarted < MaxCalls
  /\ IsIdle(c)
  /\ \A d \in Slots : d < c => ~IsIdle(d)

NewTask(op, args) ==
  [op |-> op, pc |-> "start", args |-> args, trace |-> <<>>, local |-> <<>>,
   result |-> Pending, after |-> {d \in Slots : IsDone(d)}]

\* raise: the exception leaves every frame of the coroutine (user.py has no
\* try/except), the task ends with it.
Raise(t, e) == [t EXCEPT !.pc = "done", !.result = Raised(e)]

\* return v
Return(t, v) == [t EXCEPT !.pc = "done", !.result = Returned(v)]

\* await request(...): the call is handed to the Requester and the
\* coroutine suspends at position pc.
Await(t, req, pc) == [t EXCEPT !.pc = pc, !.trace = @ \o <<ReqEvent(req)>>]

\* The Requester answers the pending call of t with payload p.
Answered(t, p) == [t EXCEPT !.trace = @ \o <<AnswerEvent(p)>>]

\* An operation whose body is: the credential checks, then
\* "return await request(...)".
Invoke(c, op, args, checks, req, pc) ==
  /\ CanStart(c)
  /\ nStarted' = nStarted + 1
  /\ LET e == FirstRaised(checks)
         t == NewTask(op, args)
     IN task' = [task EXCEPT ![c] =
                   IF e # None THEN Raise(t, e[1]) ELSE Await(t, req, pc)]
  /\ UNCHANGED <<uid, credential, self_info>>

\* ------------------------------------------------------------ User.__init__
Uids == {100}

\* None stands for the omitted credential argument.
CredentialArgs == {None} \cup {Some(cr) : cr \in Credentials}

User_init(u, credArg) ==
  [uid |-> u,
   credential |-> IF credArg = None THEN Credential ELSE credArg[1],
   self_info |-> None]

Init ==
  \E u \in Uids, credArg \in CredentialArgs :
    LET user == User_init(u, credArg)
    IN /\ uid = user.uid
       /\ credential = user.credential
       /\ self_info = user.self_info
       /\ task = [c \in Slots |-> IdleTask]
       /\ nStarted = 0

\* ------------------------------------------------- plain read operations
Pages == {1, 2}
Sizes == {1, 30}

VideoOrder == {"PUBDATE", "FAVORATE", "VIEW"}
VideoOrder_value(o) ==
  CASE o = "PUBDATE" -> "pubdate" [] o = "FAVORATE" -> "stow" [] o = "VIEW" -> "click"

AudioOrder == {"PUBDATE", "VIEW", "FAVORATE"}
AudioOrder_value(o) ==
  CASE o = "PUBDATE" -> 1 [] o = "VIEW" -> 2 [] o = "FAVORATE" -> 3

ArticleOrder == {"PUBDATE", "FAVORATE", "VIEW"}
ArticleOrder_value(o) ==
  CASE o = "PUBDATE" -> "publish_time" [] o = "FAVORATE" -> "fav" [] o = "VIEW" -> "view"

ArticleListOrder == {"LATEST", "VIEW"}
ArticleListOrder_value(o) == CASE o = "LATEST" -> 0 [] o = "VIEW" -> 1

BangumiType == {"BANGUMI", "DRAMA"}
BangumiType_value(b) == CASE b = "BANGUMI" -> 1 [] b = "DRAMA" -> 2

RelationType ==
  {"SUBSCRIBE", "UNSUBSCRIBE", "SUBSCRIBE_SECRETLY", "BLOCK", "UNBLOCK", "REMOVE_FANS"}
RelationType_value(r) ==
  CASE r = "SUBSCRIBE" -> 1 [] r = "UNSUBSCRIBE" -> 2
    [] r = "SUBSCRIBE_SECRETLY" -> 3 [] r = "BLOCK" -> 5
    [] r = "UNBLOCK" -> 6 [] r = "REMOVE_FANS" -> 7

ChannelOrder == {"DEFAULT", "CHANGE"}
ChannelOrder_value(o) == CASE o = "DEFAULT" -> "false" [] o = "CHANGE" -> "true"

get_user_info(c) ==
  Invoke(c, "get_user_info", <<>>, <<>>,
         Request("GET", "info.info", Some([mid |-> uid]), None, Some(credential)),
         "await_return")

get_relation_info(c) ==
  Invoke(c, "get_relation_info", <<>>, <<>>,
         Request("GET", "info.relation", Some([vmid |-> uid]), None, Some(credential)),
         "await_return")

get_up_stat_checks(cred) == <<raise_for_no_bili_jct(cred)>>

get_up_stat(c) ==
  Invoke(c, "get_up_stat", <<>>, get_up_stat_checks(credential),
         Request("GET", "info.upstat", Some([mid |-> uid]), None, Some(credential)),
         "await_return")

get_live_info(c) ==
  Invoke(c, "get_live_info", <<>>, <<>>,
         Request("GET", "info.live", Some([mid |-> uid]), None, Some(credential)),
         "await_return")

get_videos(c, tid, pn, ps, keyword, order) ==
  Invoke(c, "get_videos",
         [tid |-> tid, pn |-> pn, ps |-> ps, keyword |-> keyword, order |-> order],
         <<>>,
         Request("GET", "info.video",
                 Some([mid |-> uid, ps |-> ps, tid |-> tid, pn |-> pn,
                       keyword |-> keyword, order |-> VideoOrder_value(order)]),
                 None, Some(credential)),
         "await_return")

get_audios(c, order, pn, ps) ==
  Invoke(c, "get_audios", [order |-> order, pn |-> pn, ps |-> ps], <<>>,
         Request("GET", "info.audio",
                 Some([uid |-> uid, ps |-> ps, pn |-> pn,
                       order |-> AudioOrder_value(order)]),
                 None, Some(credential)),
         "await_return")

get_articles(c, pn, order, ps) ==
  Invoke(c, "get_articles", [pn |-> pn, order |-> order, ps |-> ps], <<>>,
         Request("GET", "info.article",
                 Some([mid |-> uid, ps |-> ps, pn |-> pn,
                       sort |-> ArticleOrder_value(order)]),
                 None, Some(credential)),
         "await_return")

get_article_list(c, order) ==
  Invoke(c, "get_article_list", [order |-> order], <<>>,
         Request("GET", "info.article_lists",
                 Some([mid |-> uid, sort |-> ArticleListOrder_value(order)]),
                 None, Some(credential)),
         "await_return")

get_subscribed_bangumi(c, pn, type_) ==
  Invoke(c, "get_subscribed_bangumi", [pn |-> pn, type_ |-> type_], <<>>,
         Request("GET", "info.bangumi",
                 Some([vmid |-> uid, pn |-> pn, ps |-> 15,
                       type |-> BangumiType_value(type_)]),
                 None, Some(credential)),
         "await_return")

get_followings(c, pn, desc) ==
  Invoke(c, "get_followings", [pn |-> pn, desc |-> desc], <<>>,
         Request("GET", "info.followings",
                 Some([vmid |-> uid, ps |-> 20, pn |-> pn,
                       order |-> IF desc THEN "desc" ELSE "asc"]),
                 None, Some(credential)),
         "await_return")

get_followers(c, pn, desc) ==
  Invoke(c, "get_followers", [pn |-> pn, desc |-> desc], <<>>,
         Request("GET", "info.followers",
                 Some([vmid |-> uid, ps |-> 20, pn |-> pn,
                       order |-> IF desc THEN "desc" ELSE "asc"]),
                 None, Some(credential)),
         "await_return")

get_overview_stat(c) ==
  Invoke(c, "get_overview_stat", <<>>, <<>>,
         Request("GET", "info.overview", Some([mid |-> uid, jsonp |-> "jsonp"]),
                 None, Some(credential)),
         "await_return")

\* get_cheese passes no credential to request.
get_cheese(c) ==
  Invoke(c, "get_cheese", <<>>, <<>>,
         Request("GET", "info.pugv", Some([mid |-> uid]), None, None),
         "await_return")

\* ---------------------------------------------------------- operate: writes
\* A variant with the two checks in the other order.
modify_relation_checks_swapped(cred) ==
  <<raise_for_no_bili_jct(cred), raise_for_no_sessdata(cred)>>

modify_relation_checks(cred) ==
  <<raise_for_no_sessdata(cred), raise_for_no_bili_jct(cred)>>

modify_relation(c, relation) ==
  Invoke(c, "modify_relation", [relation |-> relation],
         modify_relation_checks(credential),
         Request("POST", "operate.modify", None,
                 Some([fid |-> uid, act |-> RelationType_value(relation),
                       re_src |-> 11]),
                 Some(credential)),
         "await_return")

\* ------------------------------------------------------- self identity
\* The identities the my_info endpoint may answer.
Mids == {7, 8}
IdentityPayloads == {[mid |-> m] : m \in Mids}

get_self_info_checks(cred) == <<raise_for_no_sessdata(cred)>>

get_self_info_request(cred) ==
  Request("GET", "info.my_info", None, None, Some(cred))

\* The module-level get_self_info(credential).
get_self_info(c, cred) ==
  Invoke(c, "get_self_info", [credential |-> cred], get_self_info_checks(cred),
         get_self_info_request(cred), "await_identity")

get_self_info_returns(c) ==
  /\ task[c].pc = "await_identity"
  /\ \E info \in IdentityPayloads :
       task' = [task EXCEPT ![c] = Return(Answered(@, info), info)]
  /\ UNCHANGED <<uid, credential, self_info, nStarted>>

\* A variant of __get_self_info that never answers from the cache.
User__self_info_cached_never(cache) == FALSE

\* User.__get_self_info: "if self.__self_info is not None: return it".
User__self_info_cached(cache) == cache # None

\* ------------------------------------------------------------ send_msg
Texts == {"hi"}

send_msg_checks(cred) ==
  <<raise_for_no_sessdata(cred), raise_for_no_bili_jct(cred)>>

\* json.dumps({"content": text})
json_dumps_content(text) == <<"{", "\"content\"", ":", "\"" \o text \o "\"", "}">>

send_msg_request(receiver, sender_uid, text, cred) ==
  Request("POST", "operate.send_msg", None,
          Some([msg_sender_uid |-> sender_uid,
                msg_receiver_id |-> receiver,
                msg_receiver_type |-> 1,
                msg_msg_type |-> 1,
                msg_msg_status |-> 0,
                msg_content |-> json_dumps_content(text),
                msg_dev_id |-> "B9A37BF3-AA9D-4076-A4D3-366AC8C4C5DB",
                msg_new_face_version |-> "0",
                msg_timestamp |-> "int(time.time())",
                from_filework |-> 0,
                build |-> 0,
                mobi_app |-> "web"]),
          Some(cred))

\* A variant of send_msg that calls get_self_info(credential) itself, past
\* the cache of __get_self_info.
send_msg_begin_uncached(t, receiver, cred, cache, text) ==
  LET e == FirstRaised(send_msg_checks(cred) \o get_self_info_checks(cred))
  IN IF e # None THEN Raise(t, e[1])
     ELSE Await(t, get_self_info_request(cred), "await_self_info")

\* send_msg up to its first await: the two checks, then __get_self_info,
\* which answers from the cache or awaits get_self_info(credential); with
\* the cached identity the message POST is the first call.
send_msg_begin(t, receiver, cred, cache, text) ==
  LET e == FirstRaised(send_msg_checks(cred))
  IN IF e # None THEN Raise(t, e[1])
     ELSE IF User__self_info_cached(cache)
          THEN Await(t, send_msg_request(receiver, cache[1].mid, text, cred),
                     "await_return")
          ELSE LET e2 == FirstRaised(get_self_info_checks(cred))
               IN IF e2 # None THEN Raise(t, e2[1])
                  ELSE Await(t, get_self_info_request(cred), "await_self_info")

send_msg(c, text) ==
  /\ CanStart(c)
  /\ nStarted' = nStarted + 1
  /\ task' = [task EXCEPT ![c] =
                send_msg_begin(NewTask("send_msg", [text |-> text]),
                               uid, credential, self_info, text)]
  /\ UNCHANGED <<uid, credential, self_info>>

\* The identity lookup of a send_msg is answered: __get_self_info stores
\* the payload in self.__self_info and returns it, and send_msg goes on to
\* the message POST with its mid.
send_msg_identified(c) ==
  /\ task[c].pc = "await_self_info"
  /\ \E info \in IdentityPayloads :
       /\ self_info' = Some(info)
       /\ task' = [task EXCEPT ![c] =
                     Await(Answered(@, info),
                           send_msg_request(uid, info.mid, @.args.text, credential),
                           "await_return")]
  /\ UNCHANGED <<uid, credential, nStarted>>

\* ------------------------------------------------- module-level functions
GroupNames == {"friends"}
GroupIds == {1, 2}

subscribe_group_checks(cred) ==
  <<raise_for_no_sessdata(cred), raise_for_no_bili_jct(cred)>>

create_subscribe_group(c, name, cred) ==
  Invoke(c, "create_subscribe_group", [name |-> name, credential |-> cred],
         subscribe_group_checks(cred),
         Request("POST", "operate.create_subscribe_group", None,
                 Some([tag |-> name]), Some(cred)),
         "await_return")

delete_subscribe_group(c, group_id, cred) ==
  Invoke(c, "delete_subscribe_group", [group_id |-> group_id, credential |-> cred],
         subscribe_group_checks(cred),
         Request("POST", "operate.del_subscribe_group", None,
                 Some([tagid |-> group_id]), Some(cred)),
         "await_return")

rename_subscribe_group(c, group_id, new_name, cred) ==
  Invoke(c, "rename_subscribe_group",
         [group_id |-> group_id, new_name |-> new_name, credential |-> cred],
         subscribe_group_checks(cred),
         Request("POST", "operate.rename_subscribe_group", None,
                 Some([tagid |-> group_id, name |-> new_name]), Some(cred)),
         "await_return")

\* join(",", xs): the items, a comma between each two.
RECURSIVE join(_, _)
join(sep, xs) ==
  IF xs = <<>> THEN <<>>
  ELSE IF Len(xs) = 1 THEN <<Head(xs)>>
  ELSE <<Head(xs), sep>> \o join(sep, Tail(xs))

UidLists == {<<100>>, <<100, 101>>}
GroupIdLists == {<<1>>, <<1, 2>>}

set_subscribe_group(c, uids, group_ids, cred) ==
  Invoke(c, "set_subscribe_group",
         [uids |-> uids, group_ids |-> group_ids, credential |-> cred],
         subscribe_group_checks(cred),
         Request("POST", "operate.set_user_subscribe_group", None,
                 Some([fids |-> join(",", uids), tagids |-> join(",", group_ids)]),
                 Some(cred)),
         "await_return")

\* "if not credential: credential = Credential()"
DefaultCredential(credArg) == IF credArg = None THEN Credential ELSE credArg[1]

get_self_history_checks(cred) == <<raise_for_no_sessdata(cred)>>

get_self_history(c, page_num, per_page_item, credArg) ==
  LET cred == DefaultCredential(credArg)
  IN Invoke(c, "get_self_history",
            [page_num |-> page_num, per_page_item |-> per_page_item,
             credential |-> credArg],
            get_self_history_checks(cred),
            Request("GET", "info.history",
                    Some([pn |-> page_num, ps |-> per_page_item]), None, Some(cred)),
            "await_return")

get_self_coins_checks(cred) ==
  <<raise_for_no_sessdata(cred), raise_for_no_dedeuserid(cred)>>

get_self_coins(c, credArg) ==
  LET cred == DefaultCredential(credArg)
  IN Invoke(c, "get_self_coins", [credential |-> credArg],
            get_self_coins_checks(cred),
            Request("GET", "info.get_coins", None, None, Some(cred)),
            "await_coins")

\* The coins payload; get_self_coins returns its "money".
CoinPayloads == {[money |-> 0], [money |-> 5]}

get_self_coins_returns(c) ==
  /\ task[c].pc = "await_coins"
  /\ \E p \in CoinPayloads :
       task' = [task EXCEPT ![c] = Return(Answered(@, p), p.money)]
  /\ UNCHANGED <<uid, credential, self_info, nStarted>>

\* ------------------------------------------------------------ get_dynamics
\* Python values inside a payload: a str (its characters), an int, a list.
Str(chars) == [t |-> "str", v |-> chars]
Int_(n) == [t |-> "int", v |-> n]
List_(xs) == [t |-> "list", v |-> xs]

Digits == {"0", "1"}
DigitValue(ch) == IF ch = "0" THEN 0 ELSE 1

\* json.loads on the JSON of digits and (nested) arrays: a recursive-descent
\* parse of the characters.  ParseValue answers [ok, val, rest].
ParseFail == [ok |-> FALSE, val |-> Int_(0), rest |-> <<>>]

RECURSIVE ParseValue(_), ParseItems(_, _)
ParseValue(chars) ==
  IF chars = <<>> THEN ParseFail
  ELSE IF Head(chars) \in Digits
       THEN [ok |-> TRUE, val |-> Int_(DigitValue(Head(chars))), rest |-> Tail(chars)]
  ELSE IF Head(chars) = "["
       THEN IF Len(chars) >= 2 /\ chars[2] = "]"
            THEN [ok |-> TRUE, val |-> List_(<<>>), rest |-> SubSeq(chars, 3, Len(chars))]
            ELSE ParseItems(Tail(chars), <<>>)
  ELSE ParseFail

ParseItems(chars, acc) ==
  LET r == ParseValue(chars)
  IN IF ~r.ok \/ r.rest = <<>> THEN ParseFail
     ELSE IF Head(r.rest) = ","
          THEN ParseItems(Tail(r.rest), Append(acc, r.val))
     ELSE IF Head(r.rest) = "]"
          THEN [ok |-> TRUE, val |-> List_(Append(acc, r.val)), rest |-> Tail(r.rest)]
     ELSE ParseFail

\* None: json.JSONDecodeError.
json_loads(chars) ==
  LET r == ParseValue(chars)
  IN IF r.ok /\ r.rest = <<>> THEN Some(r.val) ELSE None

\* d[k] = v on a dict.
DictSet(d, k, v) == [x \in DOMAIN d \cup {k} |-> IF x = k THEN v ELSE d[x]]

\* The two statements of the loop body on one item, in order:
\*   card["card"] = json.loads(card["card"])
\*   card["extend_json"] = json.loads(card["extend_json"])
\* A missing key raises KeyError, a string that is no JSON JSONDecodeError.
decode_field(r, k) ==
  IF r.error # None THEN r
  ELSE IF k \notin DOMAIN r.card THEN [r EXCEPT !.error = Some("KeyError")]
  ELSE LET parsed == json_loads(r.card[k].v)
       IN IF parsed = None THEN [r EXCEPT !.error = Some("JSONDecodeError")]
          ELSE [r EXCEPT !.card = DictSet(@, k, parsed[1])]

decode_card(card) ==
  decode_field(decode_field([error |-> None, card |-> card], "card"), "extend_json")

\* for card in data["cards"]: ...  The first item that raises ends the loop.
RECURSIVE decode_cards(_)
decode_cards(cards) ==
  IF cards = <<>> THEN [error |-> None, cards |-> <<>>]
  ELSE LET r == decode_card(Head(cards))
       IN IF r.error # None THEN [error |-> r.error, cards |-> <<>>]
          ELSE LET rest == decode_cards(Tail(cards))
               IN IF rest.error # None THEN rest
                  ELSE [error |-> None, cards |-> <<r.card>> \o rest.cards]

\* if "cards" in data: ... ; return data
normalize_dynamics(data) ==
  IF "cards" \in DOMAIN data
  THEN LET r == decode_cards(data.cards)
       IN IF r.error # None THEN [error |-> r.error, data |-> data]
          ELSE [error |-> None, data |-> [data EXCEPT !.cards = r.cards]]
  ELSE [error |-> None, data |-> data]

\* The dynamics payloads the endpoint may answer.
CardTexts == {<<"[", "1", ",", "0", "]">>, <<"[", "1">>}
ExtendTexts == {<<"1">>}
NextOffsets == {11, 12}
Offsets == {0} \cup NextOffsets

ItemOf(cardOpt, extOpt) ==
  [k \in {"desc"} \cup (IF cardOpt = None THEN {} ELSE {"card"})
                  \cup (IF extOpt = None THEN {} ELSE {"extend_json"}) |->
     CASE k = "desc" -> Str(<<"d">>)
       [] k = "card" -> Str(cardOpt[1])
       [] k = "extend_json" -> Str(extOpt[1])]

DynamicsItems ==
  {ItemOf(co, eo) : co \in {None} \cup {Some(x) : x \in CardTexts},
                    eo \in {None} \cup {Some(x) : x \in ExtendTexts}}

SeqsUpTo(S, n) == UNION {[1..k -> S] : k \in 0..n}

DynamicsPayloads ==
  {[cards |-> cs, next_offset |-> n] : cs \in SeqsUpTo(DynamicsItems, MaxCards),
                                       n \in NextOffsets}
  \cup {[next_offset |-> n] : n \in NextOffsets}

\* A variant that sends the offset that follows the caller's.
get_dynamics_request_shifted(offset, need_top) ==
  Request("GET", "info.dynamic",
          Some([host_uid |-> uid, offset_dynamic_id |-> offset + 1,
                need_top |-> IF need_top THEN 1 ELSE 0]),
          None, Some(credential))

\* params = {...}; request("GET", url, params=params, credential=...)
get_dynamics_request(offset, need_top) ==
  Request("GET", "info.dynamic",
          Some([host_uid |-> uid, offset_dynamic_id |-> offset,
                need_top |-> IF need_top THEN 1 ELSE 0]),
          None, Some(credential))

get_dynamics(c, offset, need_top) ==
  Invoke(c, "get_dynamics", [offset |-> offset, need_top |-> need_top], <<>>,
         get_dynamics_request(offset, need_top), "await_dynamics")

get_dynamics_returns(c) ==
  /\ task[c].pc = "await_dynamics"
  /\ \E data \in DynamicsPayloads :
       LET r == normalize_dynamics(data)
       IN task' = [task EXCEPT ![c] =
                     IF r.error # None THEN Raise(Answered(@, data), r.error[1])
                     ELSE Return(Answered(@, data), r.data)]
  /\ UNCHANGED <<uid, credential, self_info, nStarted>>

\* ------------------------------------------------- channel video listings
ChannelIds == {1, 2}

get_channel_videos_series_request(owner, sid, pn, ps) ==
  Request("GET", "info.channel_video_series",
          Some([mid |-> owner.uid, series_id |-> sid, pn |-> pn, ps |-> ps]),
          None, Some(owner.credential))

get_channel_videos_season_request(owner, sid, sort, pn, ps) ==
  Request("GET", "info.channel_video_season",
          Some([mid |-> owner.uid, season_id |-> sid,
                sort_reverse |-> ChannelOrder_value(sort),
                page_num |-> pn, page_size |-> ps]),
          None, Some(owner.credential))

\* The User of the model, as the self of its methods.
Self == [uid |-> uid, credential |-> credential, self_info |-> self_info]

get_channel_videos_series(c, sid, pn, ps) ==
  Invoke(c, "get_channel_videos_series", [sid |-> sid, pn |-> pn, ps |-> ps], <<>>,
         get_channel_videos_series_request(Self, sid, pn, ps), "await_return")

get_channel_videos_season(c, sid, sort, pn, ps) ==
  Invoke(c, "get_channel_videos_season",
         [sid |-> sid, sort |-> sort, pn |-> pn, ps |-> ps], <<>>,
         get_channel_videos_season_request(Self, sid, sort, pn, ps), "await_return")

\* -------------------------------------------------------- get_channel_list
SeasonMeta(i) == [season_id |-> i, name |-> "season"]
SeriesMeta(i) == [series_id |-> i, name |-> "series"]
SeasonEntries == {[meta |-> SeasonMeta(i)] : i \in ChannelIds}
SeriesEntries == {[meta |-> SeriesMeta(i)] : i \in ChannelIds}

\* The answers of the channel_list endpoint: the probe is read for its
\* page total only, the second answer is the listing.
ProbePayloads == {[items_lists |-> [page |-> [total |-> n]]] : n \in 0..MaxTotal}

Listings ==
  {[items_lists |-> [page |-> [total |-> Len(a) + Len(b)],
                     seasons_list |-> a, series_list |-> b]] :
     a \in SeqsUpTo(SeasonEntries, MaxList), b \in SeqsUpTo(SeriesEntries, MaxList)}

\* param = {"mid": self.uid, "page_num": 1, "page_size": 1}
channel_list_probe(owner) ==
  Request("GET", "info.channel_list",
          Some([mid |-> owner.uid, page_num |-> 1, page_size |-> 1]),
          None, Some(owner.credential))

\* A variant without the clamp of an empty total.
DiscoveredPageSize_unclamped(items) == items

\* "if items == 0: items = 1"
DiscoveredPageSize(items) == IF items = 0 THEN 1 ELSE items

\* param["page_size"] = items
channel_list_second(owner, res) ==
  Request("GET", "info.channel_list",
          Some([mid |-> owner.uid, page_num |-> 1,
                page_size |-> DiscoveredPageSize(res.items_lists.page.total)]),
          None, Some(owner.credential))

\* The User whose get_channel_list a task runs: the owner of the
\* ChannelSeries under construction, the User of the model otherwise.
OwnerOf(t) == IF t.op = "ChannelSeries.__init__" THEN t.local.owner ELSE Self

get_channel_list(c) ==
  Invoke(c, "get_channel_list", <<>>, <<>>, channel_list_probe(Self), "await_probe")

\* The probe is answered: read the total, time.sleep(0.5), ask again.
get_channel_list_probed(c) ==
  /\ task[c].pc = "await_probe"
  /\ \E res \in ProbePayloads :
       task' = [task EXCEPT ![c] =
                  Await([Answered(@, res) EXCEPT !.trace = @ \o <<SleepEvent("0.5")>>],
                        channel_list_second(OwnerOf(@), res), "await_list")]
  /\ UNCHANGED <<uid, credential, self_info, nStarted>>

get_channel_list_returns(c) ==
  /\ task[c].pc = "await_list"
  /\ task[c].op = "get_channel_list"
  /\ \E p \in Listings : task' = [task EXCEPT ![c] = Return(Answered(@, p), p)]
  /\ UNCHANGED <<uid, credential, self_info, nStarted>>

\* ------------------------------------------------------------ ChannelSeries
ChannelSeriesType == {"SERIES", "SEASON"}
ChannelSeriesType_value(ty) == IF ty = "SERIES" THEN 0 ELSE 1

\* The truth value of an int.
Truthy(n) == n # 0

\* The empty mapping {}.
EmptyMeta == [k \in {} |-> 0]

\* The metadata a caller may pass: nothing, {} or the meta of a channel.
SuppliedMetas == {EmptyMeta, SeasonMeta(1), SeriesMeta(1)}
MetaArgs == {None} \cup {Some(m) : m \in SuppliedMetas}

\* The fields __init__ sets before it looks at meta.
ChannelSeries_fields(u, type_, id_, credArg) ==
  [uid |-> u, is_new |-> ChannelSeriesType_value(type_), id_ |-> id_,
   owner |-> User_init(u, credArg), credential |-> credArg, meta |-> None]

look_type(is_new) == IF Truthy(is_new) THEN "seasons" ELSE "series"

\* "if meta == None"
NeedsFetch(metaArg) == metaArg = None

\* __init__ up to the end or to its first await inside
\* sync(self.owner.get_channel_list()).
ChannelSeries_init_begin(t, u, type_, id_, credArg, metaArg) ==
  LET obj == ChannelSeries_fields(u, type_, id_, credArg)
  IN IF NeedsFetch(metaArg)
     THEN Await([t EXCEPT !.local = [obj |-> obj, owner |-> obj.owner]],
                channel_list_probe(obj.owner), "await_probe")
     ELSE Return(t, [obj EXCEPT !.meta = metaArg])

ChannelSeries_init(c, u, type_, id_, credArg, metaArg) ==
  /\ CanStart(c)
  /\ nStarted' = nStarted + 1
  /\ task' = [task EXCEPT ![c] =
                ChannelSeries_init_begin(
                  NewTask("ChannelSeries.__init__",
                          [uid |-> u, type_ |-> type_, id_ |-> id_,
                           credential |-> credArg, meta |-> metaArg]),
                  u, type_, id_, credArg, metaArg)]
  /\ UNCHANGED <<uid, credential, self_info>>

\* for channel in channel_list["items_lists"][look_type + "_list"]:
\*     if channel["meta"][...] == self.id_: self.meta = channel["meta"]
ChannelsToScan(obj, channel_list) ==
  IF look_type(obj.is_new) = "seasons"
  THEN channel_list.items_lists.seasons_list
  ELSE channel_list.items_lists.series_list

TypeIdOf(obj, channel) ==
  IF Truthy(obj.is_new) THEN channel.meta.season_id ELSE channel.meta.series_id

\* A variant of the scan without the comparison of ids: the last entry wins.
ScanChannels_any(obj, channels, meta) ==
  IF channels = <<>> THEN meta ELSE Some(channels[Len(channels)].meta)

RECURSIVE ScanChannels(_, _, _)
ScanChannels(obj, channels, meta) ==
  IF channels = <<>> THEN meta
  ELSE ScanChannels(obj, Tail(channels),
                    IF TypeIdOf(obj, Head(channels)) = obj.id_
                    THEN Some(Head(channels).meta) ELSE meta)

\* The listing is answered to a ChannelSeries under construction.
ChannelSeries_init_scan(c) ==
  /\ task[c].pc = "await_list"
  /\ task[c].op = "ChannelSeries.__init__"
  /\ \E p \in Listings :
       LET obj == task[c].local.obj
           meta == ScanChannels(obj, ChannelsToScan(obj, p), obj.meta)
       IN task' = [task EXCEPT ![c] =
                     IF meta = None THEN Raise(Answered(@, p), "ValueError")
                     ELSE Return(Answered(@, p), [obj EXCEPT !.meta = meta])]
  /\ UNCHANGED <<uid, credential, self_info, nStarted>>

\* ------------------------------------------------------------- get_channels
get_channels(c) ==
  Invoke(c, "get_channels", <<>>, <<>>, channel_list_probe(Self), "await_probe")

\* What get_channels passes to ChannelSeries(...) for one entry.
SeasonArgs(item) ==
  [uid |-> uid, type_ |-> "SEASON", id_ |-> item.meta.season_id,
   credential |-> Some(credential), meta |-> Some(item.meta)]

\* A variant that tags a series_list entry SEASON.
SeriesArgs_tagged_season(item) ==
  [uid |-> uid, type_ |-> "SEASON", id_ |-> item.meta.series_id,
   credential |-> Some(credential), meta |-> Some(item.meta)]

SeriesArgs(item) ==
  [uid |-> uid, type_ |-> "SERIES", id_ |-> item.meta.series_id,
   credential |-> Some(credential), meta |-> Some(item.meta)]

ChannelArgsOf(channel_data) ==
  [i \in 1..Len(channel_data.items_lists.seasons_list) |->
     SeasonArgs(channel_data.items_lists.seasons_list[i])]
  \o [i \in 1..Len(channel_data.items_lists.series_list) |->
        SeriesArgs(channel_data.items_lists.series_list[i])]

\* The listing is answered to get_channels: one ChannelSeries per entry.  A
\* constructor that is given no meta starts a fetch of its own.
get_channels_build(c) ==
  /\ task[c].pc = "await_list"
  /\ task[c].op = "get_channels"
  /\ \E p \in Listings :
       LET args == ChannelArgsOf(p)
           t == Answered(task[c], p)
           fetching == {i \in 1..Len(args) : NeedsFetch(args[i].meta)}
       IN task' = [task EXCEPT ![c] =
            IF fetching # {}
            THEN LET a == args[CHOOSE i \in fetching : \A j \in fetching : i <= j]
                 IN ChannelSeries_init_begin(t, a.uid, a.type_, a.id_,
                                             a.credential, a.meta)
            ELSE Return(t, [i \in 1..Len(args) |->
                              [ChannelSeries_fields(args[i].uid, args[i].type_,
                                                    args[i].id_, args[i].credential)
                                 EXCEPT !.meta = args[i].meta]])]
  /\ UNCHANGED <<uid, credential, self_info, nStarted>>

\* ------------------------------------------------ ChannelSeries.get_videos
\* The objects a constructor call of the caller has returned.
ChannelCredentialArgs == {None, Some(credential)}

ChannelSeriesObjects ==
  {[ChannelSeries_fields(u, ty, i, ca) EXCEPT !.meta = Some(m)] :
     u \in Uids, ty \in ChannelSeriesType, i \in {0} \cup ChannelIds,
     ca \in ChannelCredentialArgs, m \in SuppliedMetas}

\* A variant that sends every kind to the season endpoint.
ChannelSeries_get_videos_request_season_only(obj, sort, pn, ps) ==
  get_channel_videos_season_request(obj.owner, obj.id_, sort, pn, ps)

ChannelSeries_get_videos_request(obj, sort, pn, ps) ==
  IF Truthy(obj.is_new)
  THEN get_channel_videos_season_request(obj.owner, obj.id_, sort, pn, ps)
  ELSE get_channel_videos_series_request(obj.owner, obj.id_, pn, ps)

ChannelSeries_get_videos(c, obj, sort, pn, ps) ==
  Invoke(c, "ChannelSeries.get_videos",
         [self |-> obj, sort |-> sort, pn |-> pn, ps |-> ps], <<>>,
         ChannelSeries_get_videos_request(obj, sort, pn, ps), "await_return")

\* ------------------------------------------------------- answers, plain
\* The payload of an endpoint whose answer the core hands on as it is.
Payloads == {"payload"}

\* "return await request(...)": the payload is the result.
request_returns(c) ==
  /\ task[c].pc = "await_return"
  /\ \E p \in Payloads : task' = [task EXCEPT ![c] = Return(Answered(@, p), p)]
  /\ UNCHANGED <<uid, credential, self_info, nStarted>>

\* A variant that swallows the error of the Requester and returns None.
OnRequesterError_swallowed(t, e) == Return(t, None)

\* An await of the Requester that raises e: no frame of user.py catches
\* (there is no try/except), so the error leaves the coroutine as it is.
OnRequesterError(t, e) == Raise(t, e)

\* The Requester raises, whatever the operation was waiting for.
request_raises(c) ==
  /\ InFlight(c)
  /\ \E e \in RequesterErrors :
       task' = [task EXCEPT ![c] =
                  OnRequesterError([@ EXCEPT !.trace = @ \o <<ErrorEvent(e)>>], e)]
  /\ UNCHANGED <<uid, credential, self_info, nStarted>>

\* The caller takes the result of a finished invocation; the task is gone.
Collect(c) ==
  /\ IsDone(c)
  /\ task' = [task EXCEPT ![c] = IdleTask]
  /\ UNCHANGED <<uid, credential, self_info, nStarted>>

NoneInFlight == \A d \in Slots : IsIdle(d)

\* A caller that awaits each operation before it calls the next.
Next ==
  \E c \in Slots :
    \/ NoneInFlight /\ get_user_info(c)
    \/ NoneInFlight /\ get_relation_info(c)
    \/ NoneInFlight /\ get_up_stat(c)
    \/ NoneInFlight /\ get_live_info(c)
    \/ NoneInFlight /\ \E pn \in Pages, ps \in Sizes, order \in VideoOrder :
                         get_videos(c, 0, pn, ps, "", order)
    \/ NoneInFlight /\ \E order \in AudioOrder, pn \in Pages, ps \in Sizes :
                         get_audios(c, order, pn, ps)
    \/ NoneInFlight /\ \E pn \in Pages, order \in ArticleOrder, ps \in Sizes :
                         get_articles(c, pn, order, ps)
    \/ NoneInFlight /\ \E order \in ArticleListOrder : get_article_list(c, order)
    \/ NoneInFlight /\ \E pn \in Pages, type_ \in BangumiType :
                         get_subscribed_bangumi(c, pn, type_)
    \/ NoneInFlight /\ \E pn \in Pages, desc \in BOOLEAN : get_followings(c, pn, desc)
    \/ NoneInFlight /\ \E pn \in Pages, desc \in BOOLEAN : get_followers(c, pn, desc)
    \/ NoneInFlight /\ get_overview_stat(c)
    \/ NoneInFlight /\ get_cheese(c)
    \/ NoneInFlight /\ \E relation \in RelationType : modify_relation(c, relation)
    \/ NoneInFlight /\ \E text \in Texts : send_msg(c, text)
    \/ send_msg_identified(c)
    \/ NoneInFlight /\ \E cred \in Credentials : get_self_info(c, cred)
    \/ get_self_info_returns(c)
    \/ NoneInFlight /\ \E name \in GroupNames, cred \in Credentials :
                         create_subscribe_group(c, name, cred)
    \/ NoneInFlight /\ \E group_id \in GroupIds, cred \in Credentials :
                         delete_subscribe_group(c, group_id, cred)
    \/ NoneInFlight /\ \E group_id \in GroupIds, name \in GroupNames, cred \in Credentials :
                         rename_subscribe_group(c, group_id, name, cred)
    \/ NoneInFlight /\ \E uids \in UidLists, group_ids \in GroupIdLists, cred \in Credentials :
                         set_subscribe_group(c, uids, group_ids, cred)
    \/ NoneInFlight /\ \E pn \in Pages, ps \in Sizes, credArg \in CredentialArgs :
                         get_self_history(c, pn, ps, credArg)
    \/ NoneInFlight /\ \E credArg \in CredentialArgs : get_self_coins(c, credArg)
    \/ get_self_coins_returns(c)
    \/ NoneInFlight /\ \E offset \in Offsets, need_top \in BOOLEAN :
                         get_dynamics(c, offset, need_top)
    \/ get_dynamics_returns(c)
    \/ NoneInFlight /\ \E sid \in ChannelIds, pn \in Pages, ps \in Sizes :
                         get_channel_videos_series(c, sid, pn, ps)
    \/ NoneInFlight /\ \E sid \in ChannelIds, sort \in ChannelOrder, pn \in Pages, ps \in Sizes :
                         get_channel_videos_season(c, sid, sort, pn, ps)
    \/ NoneInFlight /\ get_channel_list(c)
    \/ get_channel_list_probed(c)
    \/ get_channel_list_returns(c)
    \/ NoneInFlight /\ get_channels(c)
    \/ get_channels_build(c)
    \/ NoneInFlight /\ \E u \in Uids, ty \in ChannelSeriesType, i \in {0} \cup ChannelIds,
                            ca \in ChannelCredentialArgs, m \in MetaArgs :
                         ChannelSeries_init(c, u, ty, i, ca, m)
    \/ ChannelSeries_init_scan(c)
    \/ NoneInFlight /\ \E obj \in ChannelSeriesObjects, sort \in ChannelOrder,
                            pn \in Pages, ps \in Sizes :
                         ChannelSeries_get_videos(c, obj, sort, pn, ps)
    \/ request_returns(c)
    \/ request_raises(c)
    \/ Collect(c)

Spec == Init /\ [][Next]_vars

\* Operations of one User that overlap: a caller that starts send_msg calls
\* without awaiting the earlier ones (asyncio.gather, create_task), and
\* keeps every task.
NextConcurrent ==
  \E c \in Slots :
    \/ \E text \in Texts : send_msg(c, text)
    \/ send_msg_identified(c)
    \/ request_returns(c)
    \/ request_raises(c)

SpecConcurrent == Init /\ [][NextConcurrent]_vars

\* A traversal of the dynamics feed, as the docstring of get_dynamics
\* describes it: the caller awaits a page, takes its next_offset and calls
\* get_dynamics again with that value as offset.  The page before is dropped.
get_dynamics_following(c) ==
  /\ IsDone(c)
  /\ task[c].op = "get_dynamics"
  /\ task[c].result.kind = "return"
  /\ nStarted < MaxCalls
  /\ nStarted' = nStarted + 1
  /\ \E need_top \in BOOLEAN :
       LET offset == task[c].result.value.next_offset
           t == [NewTask("get_dynamics", [offset |-> offset, need_top |-> need_top])
                   EXCEPT !.after = {}]
       IN task' = [task EXCEPT ![c] =
                     Await(t, get_dynamics_request(offset, need_top), "await_dynamics")]
  /\ UNCHANGED <<uid, credential, self_info>>

\* The traversal starts at any offset (0, the default, is the start of the
\* feed) and ends when a page fails.
NextTraversal ==
  \E c \in Slots :
    \/ nStarted = 0 /\ \E offset \in Offsets, need_top \in BOOLEAN :
                         get_dynamics(c, offset, need_top)
    \/ get_dynamics_following(c)
    \/ get_dynamics_returns(c)
    \/ request_raises(c)

SpecTraversal == Init /\ [][NextTraversal]_vars

\* ================================================================ claims
RequestsTo(t, api) == SelectSeq(RequestsOf(t.trace), LAMBDA r : r.api = api)

\* ---------------------------------------------------------------- C1
\* The claims each credentialed operation requires, in check order, as the
\* specification lists them.
RequiredClaims(op) ==
  CASE op \in {"modify_relation", "send_msg", "create_subscribe_group",
               "delete_subscribe_group", "rename_subscribe_group",
               "set_subscribe_group"} -> <<"sessdata", "bili_jct">>
    [] op = "get_up_stat" -> <<"bili_jct">>
    [] op \in {"get_self_info", "get_self_history"} -> <<"sessdata">>
    [] op = "get_self_coins" -> <<"sessdata", "dedeuserid">>
    [] OTHER -> <<>>

MissingCredentialError(claim) ==
  CASE claim = "sessdata" -> "CredentialNoSessdataException"
    [] claim = "bili_jct" -> "CredentialNoBiliJctException"
    [] claim = "dedeuserid" -> "CredentialNoDedeUserIDException"

\* The credential an invocation was called with.
CalledWith(t) ==
  IF t.op \in {"modify_relation", "send_msg", "get_up_stat"} THEN credential
  ELSE IF t.op \in {"get_self_history", "get_self_coins"}
       THEN (IF t.args.credential = None THEN Credential ELSE t.args.credential[1])
  ELSE t.args.credential

MissingClaims(cred, claims) == SelectSeq(claims, LAMBDA k : ~cred[k])

\* C1: an operation that requires credentials, called with a credential that
\* lacks a required claim, ends with the missing-credential error of the
\* first missing claim in check order, and has handed no call to the
\* Requester.
C1_MissingCredentialFailsFast ==
  \A c \in Slots :
    LET t == task[c]
    IN RequiredClaims(t.op) # <<>> =>
         LET missing == MissingClaims(CalledWith(t), RequiredClaims(t.op))
         IN missing # <<>> =>
              /\ t.pc = "done"
              /\ t.result = Raised(MissingCredentialError(missing[1]))
              /\ t.trace = <<>>

\* send_msg with neither claim: the session error, not the write-token one.
C1_Witness ==
  \E c \in Slots :
    /\ task[c].op = "send_msg"
    /\ ~credential.sessdata /\ ~credential.bili_jct
    /\ task[c].result = Raised("CredentialNoSessdataException")

\* ---------------------------------------------------------------- C2
ReachedPost(t) == RequestsTo(t, "operate.send_msg") # <<>>

IdentityLookups(t) ==
  Cardinality({i \in DOMAIN t.trace :
                 t.trace[i].ev = "request" /\ t.trace[i].req.api = "info.my_info"})

\* The identity the Requester answered to the lookup of t.
IdentityAnswered(t) == t.trace[2].payload

\* C2: of two send_msg calls on a fresh User, the second started after the
\* first had ended with its identity lookup answered, exactly one identity
\* lookup is handed to the Requester over the two, by the first; the second
\* posts with the cached identity.
C2_SequentialCallsLookUpOnce ==
  ( /\ task[1].op = "send_msg" /\ task[2].op = "send_msg"
    /\ 1 \in task[2].after
    /\ ReachedPost(task[1]) )
  => /\ IdentityLookups(task[1]) = 1
     /\ IdentityLookups(task[2]) = 0
     /\ ReachedPost(task[2])
     /\ RequestsTo(task[2], "operate.send_msg")[1].data[1].msg_sender_uid
          = IdentityAnswered(task[1]).mid

C2_Witness ==
  /\ task[1].op = "send_msg" /\ task[1].result.kind = "return"
  /\ task[2].op = "send_msg" /\ task[2].result.kind = "return"
  /\ 1 \in task[2].after

\* ---------------------------------------------------------------- C3
\* The identity lookups handed to the Requester for this User so far.
TotalIdentityLookups ==
  Cardinality(UNION {{<<c, i>> : i \in {j \in DOMAIN task[c].trace :
                                         /\ task[c].trace[j].ev = "request"
                                         /\ task[c].trace[j].req.api = "info.my_info"}} :
                     c \in Slots})

\* C3 as claimed: at most one identity lookup over the lifetime of the User,
\* whatever the interleaving and whatever the lookups answer.
C3_AtMostOneIdentityFetch == TotalIdentityLookups <= 1

\* C3 as amended: once the identity is cached, no further identity lookup
\* is handed to the Requester for this User.
C3_NoFetchOnceCached ==
  [][self_info # None => TotalIdentityLookups' = TotalIdentityLookups]_vars

\* Two lookups were issued before the cache was filled, and a later send_msg
\* posted from the cache without a lookup.
C3_Witness ==
  /\ self_info # None
  /\ TotalIdentityLookups >= 2
  /\ \E c \in Slots : ReachedPost(task[c]) /\ IdentityLookups(task[c]) = 0

\* ---------------------------------------------------------------- C4
\* C4: a get_channel_list that returns has done exactly this, in order: the
\* probe (page_num 1, page_size 1), its answer, the pause of 0.5 s, a second
\* request of page size N for a probed total N > 0 and 1 for a total of 0,
\* its answer; and it returns the payload of the second request.
C4_TwoStepDiscovery ==
  \A c \in Slots :
    LET t == task[c]
    IN (t.op = "get_channel_list" /\ t.result.kind = "return") =>
         /\ Len(t.trace) = 5
         /\ t.trace[1] = ReqEvent(Request("GET", "info.channel_list",
                            Some([mid |-> uid, page_num |-> 1, page_size |-> 1]),
                            None, Some(credential)))
         /\ t.trace[2].ev = "payload"
         /\ t.trace[3] = SleepEvent("0.5")
         /\ LET total == t.trace[2].payload.items_lists.page.total
            IN t.trace[4] = ReqEvent(Request("GET", "info.channel_list",
                              Some([mid |-> uid, page_num |-> 1,
                                    page_size |-> IF total > 0 THEN total ELSE 1]),
                              None, Some(credential)))
         /\ t.trace[5].ev = "payload"
         /\ t.result.value = t.trace[5].payload

\* A probe that reported a total of 0, and the call returned.
C4_Witness ==
  \E c \in Slots :
    /\ task[c].op = "get_channel_list" /\ task[c].result.kind = "return"
    /\ task[c].trace[2].payload.items_lists.page.total = 0

\* ---------------------------------------------------------------- C5
IsInit(t) == t.op = "ChannelSeries.__init__"

\* The listing answered to a construction that fetches.
ListingAnswered(t) == Len(t.trace) >= 5 /\ t.trace[5].ev = "payload"

\* The metas of the entries of the requested kind with the requested id.
MatchingMetas(t) ==
  LET l == t.trace[5].payload.items_lists
  IN IF t.args.type_ = "SEASON"
     THEN {l.seasons_list[i].meta : i \in {j \in 1..Len(l.seasons_list) :
                                             l.seasons_list[j].meta.season_id = t.args.id_}}
     ELSE {l.series_list[i].meta : i \in {j \in 1..Len(l.series_list) :
                                            l.series_list[j].meta.series_id = t.args.id_}}

ResolvesWithCalls(n) ==
  \A c \in Slots :
    LET t == task[c]
    IN IsInit(t) =>
         /\ (t.args.meta # None /\ t.args.meta # Some(EmptyMeta)) =>
              /\ t.result.kind = "return"
              /\ RequestsOf(t.trace) = <<>>
         /\ (t.args.meta = None /\ ListingAnswered(t) /\ MatchingMetas(t) # {}) =>
              /\ t.result.kind = "return"
              /\ Len(RequestsOf(t.trace)) = n
              /\ t.result.value.meta # None
              /\ t.result.value.meta[1] \in MatchingMetas(t)

\* C5 as claimed: a construction with non-empty metadata hands no call to the
\* Requester; one without metadata, whose listing holds a matching entry,
\* hands it exactly one call and resolves with that entry's metadata.
C5_ResolvesWithOneCall == ResolvesWithCalls(1)

\* C5 as amended: ... hands it exactly two calls (the probe and the listing
\* of get_channel_list) and resolves with that entry's metadata.
C5_ResolvesWithTwoCalls == ResolvesWithCalls(2)

C5_Witness ==
  \E c \in Slots :
    /\ IsInit(task[c]) /\ task[c].args.meta = None
    /\ task[c].result.kind = "return"
    /\ Len(ChannelsToScan(task[c].result.value, task[c].trace[5].payload)) = 2

\* ---------------------------------------------------------------- C6
\* C6: a construction that returns has non-empty metadata, whatever the
\* arguments; one without metadata whose listing has no entry of the
\* requested kind and id ends with the collection-not-found error.
C6_MetadataNonEmpty ==
  \A c \in Slots :
    LET t == task[c]
    IN IsInit(t) =>
         /\ t.result.kind = "return" =>
              /\ t.result.value.meta # None
              /\ t.result.value.meta[1] # EmptyMeta
         /\ (t.args.meta = None /\ ListingAnswered(t) /\ MatchingMetas(t) = {}) =>
              t.result = Raised("ValueError")

\* ---------------------------------------------------------------- C7
HasBoth(item) == {"card", "extend_json"} \subseteq DOMAIN item
HasNeither(item) == {"card", "extend_json"} \cap DOMAIN item = {}

\* Every stringified field of the payload is JSON.
AllJson(data) ==
  \A i \in 1..Len(data.cards) :
    \A k \in {"card", "extend_json"} \cap DOMAIN data.cards[i] :
      json_loads(data.cards[i][k].v) # None

\* C7: of an answered get_dynamics, with every stringified field JSON: an
\* item with both fields is returned with both decoded (equal to parsing the
\* original strings) and its other fields as they were; an item without them
\* is returned as it was, and no error is raised; a payload without a cards
\* list is returned unchanged.
C7_DynamicsNormalized ==
  \A c \in Slots :
    LET t == task[c]
    IN (t.op = "get_dynamics" /\ Len(t.trace) = 2 /\ t.trace[2].ev = "payload") =>
         LET data == t.trace[2].payload
         IN IF "cards" \notin DOMAIN data
            THEN t.result = Returned(data)
            ELSE AllJson(data) =>
                   /\ t.result.kind = "return"
                   /\ t.result.value.next_offset = data.next_offset
                   /\ Len(t.result.value.cards) = Len(data.cards)
                   /\ \A i \in 1..Len(data.cards) :
                        LET old == data.cards[i]
                            new == t.result.value.cards[i]
                        IN /\ HasBoth(old) =>
                                /\ DOMAIN new = DOMAIN old
                                /\ new["card"] = json_loads(old["card"].v)[1]
                                /\ new["extend_json"] = json_loads(old["extend_json"].v)[1]
                                /\ new["desc"] = old["desc"]
                           /\ HasNeither(old) => new = old

\* ---------------------------------------------------------------- C8
\* C8: an error the Requester raises is the last thing an invocation sees:
\* the invocation is over, its result is that error, it hands no further
\* call to the Requester, and the step that raised it left the cached
\* identity as it was.
C8_RequesterErrorEndsOperation ==
  [][\A c \in Slots :
       LET t == task'[c]
       IN \A i \in 1..Len(t.trace) :
            t.trace[i].ev = "error" =>
              /\ i = Len(t.trace)
              /\ t.pc = "done"
              /\ t.result = Raised(t.trace[i].error)
              /\ (task[c].trace # t.trace => self_info' = self_info)]_vars

\* The probe of a get_channel_list failed: one call, no second request.
C8_Witness ==
  \E c \in Slots :
    /\ task[c].op = "get_channel_list"
    /\ Len(task[c].trace) = 2
    /\ task[c].trace[2].ev = "error"
    /\ task[c].result = Raised(task[c].trace[2].error)

\* ---------------------------------------------------------------- C9
\* C9: a get_channels that returns has handed the Requester the two calls
\* of the discovery and no other, and returns one ChannelSeries per entry
\* of the listing, seasons first: tagged SEASON (is_new 1) for a
\* seasons_list entry and SERIES (is_new 0) for a series_list entry, with
\* the entry's id and the entry's meta.
C9_OneChannelPerEntry ==
  \A c \in Slots :
    LET t == task[c]
    IN /\ (t.op = "get_channels") => Len(RequestsOf(t.trace)) <= 2
       /\ (t.op = "get_channels" /\ ListingAnswered(t)) =>
            LET l == t.trace[5].payload.items_lists
                ns == Len(l.seasons_list)
                nr == Len(l.series_list)
            IN /\ t.result.kind = "return"
               /\ Len(RequestsOf(t.trace)) = 2
               /\ Len(t.result.value) = ns + nr
               /\ \A i \in 1..ns :
                    LET ch == t.result.value[i]
                    IN /\ ch.is_new = 1
                       /\ ch.id_ = l.seasons_list[i].meta.season_id
                       /\ ch.meta = Some(l.seasons_list[i].meta)
                       /\ ch.uid = uid
               /\ \A i \in 1..nr :
                    LET ch == t.result.value[ns + i]
                    IN /\ ch.is_new = 0
                       /\ ch.id_ = l.series_list[i].meta.series_id
                       /\ ch.meta = Some(l.series_list[i].meta)
                       /\ ch.uid = uid

C9_Witness ==
  \E c \in Slots :
    /\ task[c].op = "get_channels" /\ task[c].result.kind = "return"
    /\ Len(task[c].trace[5].payload.items_lists.seasons_list) >= 1
    /\ Len(task[c].trace[5].payload.items_lists.series_list) >= 1

\* ---------------------------------------------------------------- C10
\* C10: get_videos(sort, pn, ps) of a ChannelSeries hands exactly one call to
\* the Requester, through its owner: for SEASON the season endpoint with the
\* sort value, the page and the page size; for SERIES the series endpoint
\* with the page and the page size, the same call whatever sort is.
C10_GetVideosDispatch ==
  \A c \in Slots :
    LET t == task[c]
    IN t.op = "ChannelSeries.get_videos" =>
         LET obj == t.args.self
         IN RequestsOf(t.trace) =
              << IF obj.is_new = 1
                 THEN Request("GET", "info.channel_video_season",
                              Some([mid |-> obj.owner.uid, season_id |-> obj.id_,
                                    sort_reverse |-> IF t.args.sort = "CHANGE"
                                                     THEN "true" ELSE "false",
                                    page_num |-> t.args.pn, page_size |-> t.args.ps]),
                              None, Some(obj.owner.credential))
                 ELSE Request("GET", "info.channel_video_series",
                              Some([mid |-> obj.owner.uid, series_id |-> obj.id_,
                                    pn |-> t.args.pn, ps |-> t.args.ps]),
                              None, Some(obj.owner.credential)) >>

\* A SERIES asked for the non-default sort, answered.
C10_Witness ==
  \E c \in Slots :
    /\ task[c].op = "ChannelSeries.get_videos"
    /\ task[c].args.self.is_new = 0
    /\ task[c].args.sort = "CHANGE"
    /\ task[c].result.kind = "return"

\* ---------------------------------------------------------------- C11
DynamicsRequested(t) ==
  t.op = "get_dynamics" /\ Len(t.trace) >= 1 /\ t.trace[1].ev = "request"

DynamicsReturned(t) ==
  DynamicsRequested(t) /\ t.pc = "done" /\ t.result.kind = "return"

OffsetSent(t) == t.trace[1].req.params[1].offset_dynamic_id

\* Every get_dynamics call sends the offset it was called with, 0 included,
\* and returns the next_offset of the payload as it came.
OffsetsPassThrough ==
  \A c \in Slots :
    LET t == task[c]
    IN /\ DynamicsRequested(t) => OffsetSent(t) = t.args.offset
       /\ DynamicsReturned(t) =>
            t.result.value.next_offset = t.trace[2].payload.next_offset

\* The call that follows a returned page sends the next_offset of that
\* page's payload.
FollowsLink ==
  \A c \in Slots :
    (DynamicsReturned(task[c]) /\ DynamicsRequested(task'[c]) /\ task'[c].pc = "await_dynamics")
      => OffsetSent(task'[c]) = task[c].trace[2].payload.next_offset

\* C11: get_dynamics sends the caller's offset to the Requester unchanged
\* (0 is sent as 0), a returned payload keeps its next_offset, and the call
\* of a traversal that follows a returned page sends exactly the next_offset
\* of that page: the pages are visited in the order of the links.
C11_OffsetRoundTrip == []OffsetsPassThrough /\ [][FollowsLink]_vars

\* The third page of a traversal has returned with cards; it was asked for
\* with the next_offset of the second.
C11_Witness ==
  \E c \in Slots :
    /\ DynamicsReturned(task[c])
    /\ nStarted = 3
    /\ task[c].args.offset \in NextOffsets
    /\ "cards" \in DOMAIN task[c].result.value

\* ---------------------------------------------------------------- C12
\* The functions of the module that take their credential as an argument
\* and belong to no User.
ModuleFunctions ==
  {"get_self_info", "create_subscribe_group", "delete_subscribe_group",
   "rename_subscribe_group", "set_subscribe_group", "get_self_history",
   "get_self_coins"}

\* The User on whose behalf a task calls the Requester: the owner of the
\* ChannelSeries for the operations of a ChannelSeries, this User otherwise.
InstanceOf(t) ==
  IF t.op = "ChannelSeries.get_videos" THEN t.args.self.owner ELSE OwnerOf(t)

\* The credential a call goes out with: a call handed over without one is
\* an anonymous call.
CredentialSent(req) == IF req.credential = None THEN Credential ELSE req.credential[1]

CallsCarryCredentialExcept(ops) ==
  \A c \in Slots :
    LET t == task[c]
    IN (~IsIdle(c) /\ t.op \notin ModuleFunctions \cup ops) =>
         \A i \in DOMAIN t.trace :
           t.trace[i].ev = "request" =>
             CredentialSent(t.trace[i].req) = InstanceOf(t).credential

\* C12: every call an operation of a User hands to the Requester, get_cheese
\* and the listing calls of a ChannelSeries through its owner included, goes
\* out with the credential of that User (the anonymous one when the User was
\* constructed without).
C12_CallsCarryCredential == CallsCarryCredentialExcept({})

\* The same of every operation but get_cheese.
CallsCarryCredentialButCheese == CallsCarryCredentialExcept({"get_cheese"})

\* A ChannelSeries has fetched its listing through its owner.
CallsCarryCredentialSeen ==
  \E c \in Slots :
    /\ task[c].op = "ChannelSeries.__init__"
    /\ task[c].args.credential # None
    /\ task[c].args.credential[1] # Credential
    /\ Len(RequestsOf(task[c].trace)) = 2
====
